---- MODULE Spec2Model ----
(***************************************************************************)
(* Sudoku solver (SudokuSolver_finalProject.py): the CSP backtracking      *)
(* search with minimum-remaining-values, least-constraining-value and      *)
(* forward checking, the Sudoku constructor, and the gameLauncher handlers *)
(* that call it.                                                           *)
(*                                                                         *)
(* Python lists are sequences (1-based), dicts are functions whose DOMAIN  *)
(* is the key set, one-character strings are TLA+ strings, and the text of *)
(* a grid cell is the sequence of its characters.  None and the empty dict *)
(* are both the empty function: the code only ever tests their truth.      *)
(***************************************************************************)
EXTENDS Integers, Sequences, FiniteSets, TLC

VARIABLES
    savedNumbers,   \* the 9x9 StringVars of the grid: savedNumbers[i][j]
    flag,           \* gameLauncher.flag
    statusLabel,    \* gameLauncher.statusLabel['text']
    row,            \* gameLauncher.row: row[i] is the set of digits seen in row i
    col,            \* gameLauncher.col
    block,          \* gameLauncher.block
    fg,             \* fg[i][j]: text colour of the Entry track[i][j]
    focus,          \* <<>>, or the Entry with the keyboard focus, followed by
                    \* the Entry the focus is moving to
    raised,         \* exception that ended the last handler, "" if none
    pc,             \* position of the running handler
    variables,      \* csp.variables
    domains,        \* csp.domains
    curr_domains,   \* csp.curr_domains
    shared,         \* keys v whose curr_domains[v] is the list object domains[v]
    nassigns,       \* csp.nassigns
    assignment,     \* the dict passed down the calls of backtrack
    stack,          \* the active calls of backtrack, outermost first
    result,         \* return value of backtracking_search: <<>> is None
    shuffles        \* calls of random.shuffle made so far

vars == <<savedNumbers, flag, statusLabel, row, col, block, fg, focus, raised, pc,
          variables, domains, curr_domains, shared, nassigns, assignment,
          stack, result, shuffles>>

cspvars == <<variables, domains, curr_domains, shared, nassigns, assignment,
             stack, result, shuffles>>

guivars == <<savedNumbers, flag, statusLabel, row, col, block, fg, focus>>

----------------------------------------------------------------------------
(* Bounds of the exploration.                                              *)

\* random.shuffle is explored for the first MaxShuffles calls of a search;
\* later calls leave the list in its order (one of the shuffle's outcomes).
MaxShuffles == 2

\* an explored shuffle may bring any of the first MaxTieWidth minimal
\* candidates to the front.
MaxTieWidth == 2

\* the user edits the first MaxCells cells of EditCells
MaxCells == 2

\* and types the digits '1' .. MaxDigit, or '0'
MaxDigit == 2

----------------------------------------------------------------------------
(* Utilities                                                               *)

Range(s) == {s[k] : k \in DOMAIN s}

Min(a, b) == IF a <= b THEN a ELSE b

RECURSIVE flatten(_)
flatten(seqs) ==
    IF seqs = <<>> THEN <<>> ELSE Head(seqs) \o flatten(Tail(seqs))

\* a slip: every pair of values is accepted
no_constraint(A, a, B, b) == TRUE

\* a slip: the variables are compared, not their values
different_values_of_variables(A, a, B, b) == A # B

different_values_constraint(A, a, B, b) == a # b

----------------------------------------------------------------------------
(* Sudoku constants                                                        *)

R3 == 0 .. 2

bgrid ==
    [by \in R3 |-> [bx \in R3 |-> [y \in R3 |-> [x \in R3 |->
        ((by * 3 + bx) * 3 + y) * 3 + x]]]]

boxes ==
    [k \in 1 .. 9 |-> [m \in 1 .. 9 |->
        bgrid[(k - 1) \div 3][(k - 1) % 3][(m - 1) \div 3][(m - 1) % 3]]]

\* a slip: the cells listed box by box
rows_by_box ==
    [r \in 1 .. 9 |-> [c \in 1 .. 9 |->
        bgrid[(r - 1) \div 3][(r - 1) % 3][(c - 1) \div 3][(c - 1) % 3]]]

rows ==
    [r \in 1 .. 9 |-> [c \in 1 .. 9 |->
        bgrid[(r - 1) \div 3][(c - 1) \div 3][(r - 1) % 3][(c - 1) % 3]]]

cols == [c \in 1 .. 9 |-> [r \in 1 .. 9 |-> rows[r][c]]]

units == Range(boxes) \cup Range(rows) \cup Range(cols)

_NEIGHBORS ==
    [v \in Range(flatten(rows)) |->
        UNION {Range(unit) \ {v} : unit \in {u \in units : v \in Range(u)}}]

\* The neighbors literal of Sudoku.__init__, each set listed in the order in
\* which CPython iterates over it (the order forward_checking visits it).
neighbors_iter ==
  <<
    <<1, 2, 3, 4, 5, 6, 7, 8, 9, 10, 11, 18, 19, 20, 27, 30, 33, 54, 57, 60>>,
    <<0, 2, 3, 4, 5, 6, 7, 8, 9, 10, 11, 18, 19, 20, 28, 31, 34, 55, 58, 61>>,
    <<0, 1, 3, 4, 5, 6, 7, 8, 9, 10, 11, 18, 19, 20, 29, 32, 35, 56, 59, 62>>,
    <<0, 1, 2, 4, 5, 6, 7, 8, 12, 13, 14, 21, 22, 23, 27, 30, 33, 54, 57, 60>>,
    <<0, 1, 2, 3, 5, 6, 7, 8, 12, 13, 14, 21, 22, 23, 28, 31, 34, 55, 58, 61>>,
    <<0, 1, 2, 3, 4, 6, 7, 8, 12, 13, 14, 21, 22, 23, 29, 32, 35, 56, 59, 62>>,
    <<0, 1, 2, 3, 4, 5, 7, 8, 15, 16, 17, 24, 25, 26, 27, 30, 33, 54, 57, 60>>,
    <<0, 1, 2, 3, 4, 5, 6, 8, 15, 16, 17, 24, 25, 26, 28, 31, 34, 55, 58, 61>>,
    <<0, 1, 2, 3, 4, 5, 6, 7, 15, 16, 17, 24, 25, 26, 29, 32, 35, 56, 59, 62>>,
    <<0, 1, 2, 66, 69, 10, 11, 12, 13, 14, 15, 16, 17, 18, 19, 20, 36, 39, 42, 63>>,
    <<0, 1, 2, 64, 67, 70, 9, 11, 12, 13, 14, 15, 16, 17, 18, 19, 20, 37, 40, 43>>,
    <<0, 1, 2, 65, 68, 71, 9, 10, 12, 13, 14, 15, 16, 17, 18, 19, 20, 38, 41, 44>>,
    <<66, 3, 4, 5, 69, 9, 10, 11, 13, 14, 15, 16, 17, 21, 22, 23, 36, 39, 42, 63>>,
    <<64, 3, 4, 5, 67, 70, 9, 10, 11, 12, 14, 15, 16, 17, 21, 22, 23, 37, 40, 43>>,
    <<65, 3, 4, 5, 68, 71, 9, 10, 11, 12, 13, 15, 16, 17, 21, 22, 23, 38, 41, 44>>,
    <<66, 69, 6, 7, 8, 9, 10, 11, 12, 13, 14, 16, 17, 24, 25, 26, 36, 39, 42, 63>>,
    <<64, 67, 6, 7, 8, 9, 10, 11, 12, 13, 14, 15, 17, 24, 25, 26, 70, 37, 40, 43>>,
    <<65, 68, 6, 7, 8, 9, 10, 11, 12, 13, 14, 15, 16, 24, 25, 26, 38, 71, 41, 44>>,
    <<0, 1, 2, 72, 9, 10, 11, 75, 78, 19, 20, 21, 22, 23, 24, 25, 26, 45, 48, 51>>,
    <<0, 1, 2, 9, 10, 11, 73, 76, 79, 18, 20, 21, 22, 23, 24, 25, 26, 46, 49, 52>>,
    <<0, 1, 2, 9, 10, 11, 74, 77, 80, 18, 19, 21, 22, 23, 24, 25, 26, 47, 50, 53>>,
    <<3, 4, 5, 72, 75, 12, 13, 14, 78, 18, 19, 20, 22, 23, 24, 25, 26, 45, 48, 51>>,
    <<3, 4, 5, 73, 12, 13, 14, 76, 79, 18, 19, 20, 21, 23, 24, 25, 26, 46, 49, 52>>,
    <<3, 4, 5, 74, 12, 13, 14, 77, 80, 18, 19, 20, 21, 22, 24, 25, 26, 47, 50, 53>>,
    <<6, 7, 8, 72, 75, 78, 15, 16, 17, 18, 19, 20, 21, 22, 23, 25, 26, 45, 48, 51>>,
    <<6, 7, 8, 73, 76, 79, 15, 16, 17, 18, 19, 20, 21, 22, 23, 24, 26, 46, 49, 52>>,
    <<6, 7, 8, 74, 77, 15, 16, 17, 18, 19, 20, 21, 22, 23, 24, 25, 80, 47, 50, 53>>,
    <<0, 3, 6, 28, 29, 30, 31, 32, 33, 34, 35, 36, 37, 38, 45, 46, 47, 54, 57, 60>>,
    <<1, 4, 7, 27, 29, 30, 31, 32, 33, 34, 35, 36, 37, 38, 45, 46, 47, 55, 58, 61>>,
    <<2, 5, 8, 27, 28, 30, 31, 32, 33, 34, 35, 36, 37, 38, 45, 46, 47, 56, 59, 62>>,
    <<0, 3, 6, 27, 28, 29, 31, 32, 33, 34, 35, 39, 40, 41, 48, 49, 50, 54, 57, 60>>,
    <<1, 4, 7, 27, 28, 29, 30, 32, 33, 34, 35, 39, 40, 41, 48, 49, 50, 55, 58, 61>>,
    <<2, 5, 8, 27, 28, 29, 30, 31, 33, 34, 35, 39, 40, 41, 48, 49, 50, 56, 59, 62>>,
    <<0, 3, 6, 27, 28, 29, 30, 31, 32, 34, 35, 42, 43, 44, 51, 52, 53, 54, 57, 60>>,
    <<1, 4, 7, 27, 28, 29, 30, 31, 32, 33, 35, 42, 43, 44, 51, 52, 53, 55, 58, 61>>,
    <<2, 5, 8, 27, 28, 29, 30, 31, 32, 33, 34, 42, 43, 44, 51, 52, 53, 56, 59, 62>>,
    <<66, 69, 9, 12, 15, 27, 28, 29, 37, 38, 39, 40, 41, 42, 43, 44, 45, 46, 47, 63>>,
    <<64, 67, 70, 10, 13, 16, 27, 28, 29, 36, 38, 39, 40, 41, 42, 43, 44, 45, 46, 47>>,
    <<65, 68, 71, 11, 14, 17, 27, 28, 29, 36, 37, 39, 40, 41, 42, 43, 44, 45, 46, 47>>,
    <<66, 69, 9, 12, 15, 30, 31, 32, 36, 37, 38, 40, 41, 42, 43, 44, 48, 49, 50, 63>>,
    <<64, 67, 70, 10, 13, 16, 30, 31, 32, 36, 37, 38, 39, 41, 42, 43, 44, 48, 49, 50>>,
    <<65, 68, 71, 11, 14, 17, 30, 31, 32, 36, 37, 38, 39, 40, 42, 43, 44, 48, 49, 50>>,
    <<66, 69, 9, 12, 15, 33, 34, 35, 36, 37, 38, 39, 40, 41, 43, 44, 51, 52, 53, 63>>,
    <<64, 67, 70, 10, 13, 16, 33, 34, 35, 36, 37, 38, 39, 40, 41, 42, 44, 51, 52, 53>>,
    <<65, 68, 71, 11, 14, 17, 33, 34, 35, 36, 37, 38, 39, 40, 41, 42, 43, 51, 52, 53>>,
    <<72, 75, 78, 18, 21, 24, 27, 28, 29, 36, 37, 38, 46, 47, 48, 49, 50, 51, 52, 53>>,
    <<73, 76, 79, 19, 22, 25, 27, 28, 29, 36, 37, 38, 45, 47, 48, 49, 50, 51, 52, 53>>,
    <<74, 77, 80, 20, 23, 26, 27, 28, 29, 36, 37, 38, 45, 46, 48, 49, 50, 51, 52, 53>>,
    <<72, 75, 78, 18, 21, 24, 30, 31, 32, 39, 40, 41, 45, 46, 47, 49, 50, 51, 52, 53>>,
    <<73, 76, 79, 19, 22, 25, 30, 31, 32, 39, 40, 41, 45, 46, 47, 48, 50, 51, 52, 53>>,
    <<74, 77, 80, 20, 23, 26, 30, 31, 32, 39, 40, 41, 45, 46, 47, 48, 49, 51, 52, 53>>,
    <<72, 75, 78, 18, 21, 24, 33, 34, 35, 42, 43, 44, 45, 46, 47, 48, 49, 50, 52, 53>>,
    <<73, 76, 79, 19, 22, 25, 33, 34, 35, 42, 43, 44, 45, 46, 47, 48, 49, 50, 51, 53>>,
    <<74, 77, 80, 20, 23, 26, 33, 34, 35, 42, 43, 44, 45, 46, 47, 48, 49, 50, 51, 52>>,
    <<0, 64, 65, 3, 6, 72, 73, 74, 27, 30, 33, 55, 56, 57, 58, 59, 60, 61, 62, 63>>,
    <<64, 1, 65, 4, 7, 72, 73, 74, 28, 31, 34, 54, 56, 57, 58, 59, 60, 61, 62, 63>>,
    <<64, 65, 2, 5, 8, 72, 73, 74, 29, 32, 35, 54, 55, 57, 58, 59, 60, 61, 62, 63>>,
    <<0, 66, 3, 67, 68, 6, 75, 76, 77, 27, 30, 33, 54, 55, 56, 58, 59, 60, 61, 62>>,
    <<1, 66, 67, 4, 68, 7, 75, 76, 77, 28, 31, 34, 54, 55, 56, 57, 59, 60, 61, 62>>,
    <<2, 66, 67, 5, 68, 8, 75, 76, 77, 29, 32, 35, 54, 55, 56, 57, 58, 60, 61, 62>>,
    <<0, 3, 69, 6, 70, 71, 78, 79, 80, 27, 30, 33, 54, 55, 56, 57, 58, 59, 61, 62>>,
    <<1, 4, 69, 70, 7, 71, 78, 79, 80, 28, 31, 34, 54, 55, 56, 57, 58, 59, 60, 62>>,
    <<2, 5, 69, 70, 8, 71, 78, 79, 80, 29, 32, 35, 54, 55, 56, 57, 58, 59, 60, 61>>,
    <<64, 65, 66, 67, 68, 69, 70, 71, 72, 9, 73, 74, 12, 15, 36, 39, 42, 54, 55, 56>>,
    <<65, 66, 67, 68, 69, 70, 71, 72, 73, 10, 74, 13, 16, 37, 40, 43, 54, 55, 56, 63>>,
    <<64, 66, 67, 68, 69, 70, 71, 72, 73, 74, 11, 14, 17, 38, 41, 44, 54, 55, 56, 63>>,
    <<64, 65, 67, 68, 69, 70, 71, 9, 75, 12, 76, 77, 15, 36, 39, 42, 57, 58, 59, 63>>,
    <<64, 65, 66, 68, 69, 70, 71, 10, 75, 76, 13, 77, 16, 37, 40, 43, 57, 58, 59, 63>>,
    <<64, 65, 66, 67, 69, 70, 71, 11, 75, 76, 14, 77, 17, 38, 41, 44, 57, 58, 59, 63>>,
    <<64, 65, 66, 67, 68, 70, 71, 9, 12, 78, 15, 79, 80, 36, 39, 42, 60, 61, 62, 63>>,
    <<64, 65, 66, 67, 68, 69, 71, 10, 13, 78, 79, 16, 80, 37, 40, 43, 60, 61, 62, 63>>,
    <<64, 65, 66, 67, 68, 69, 70, 11, 14, 78, 79, 17, 80, 38, 41, 44, 60, 61, 62, 63>>,
    <<64, 65, 73, 74, 75, 76, 77, 78, 79, 80, 18, 21, 24, 45, 48, 51, 54, 55, 56, 63>>,
    <<64, 65, 72, 74, 75, 76, 77, 78, 79, 80, 19, 22, 25, 46, 49, 52, 54, 55, 56, 63>>,
    <<64, 65, 72, 73, 75, 76, 77, 78, 79, 80, 20, 23, 26, 47, 50, 53, 54, 55, 56, 63>>,
    <<66, 67, 68, 72, 73, 74, 76, 77, 78, 79, 80, 18, 21, 24, 45, 48, 51, 57, 58, 59>>,
    <<66, 67, 68, 72, 73, 74, 75, 77, 78, 79, 80, 19, 22, 25, 46, 49, 52, 57, 58, 59>>,
    <<66, 67, 68, 72, 73, 74, 75, 76, 78, 79, 80, 20, 23, 26, 47, 50, 53, 57, 58, 59>>,
    <<69, 70, 71, 72, 73, 74, 75, 76, 77, 79, 80, 18, 21, 24, 45, 48, 51, 60, 61, 62>>,
    <<69, 70, 71, 72, 73, 74, 75, 76, 77, 78, 80, 19, 22, 25, 46, 49, 52, 60, 61, 62>>,
    <<69, 70, 71, 72, 73, 74, 75, 76, 77, 78, 79, 20, 23, 26, 47, 50, 53, 60, 61, 62>>
  >>

\* a slip in the literal: one cell is left out of one set
neighbors_one_missing ==
    [v \in 0 .. 80 |->
        IF v = 40 THEN Range(Tail(neighbors_iter[v + 1]))
        ELSE Range(neighbors_iter[v + 1])]

neighbors == [v \in 0 .. 80 |-> Range(neighbors_iter[v + 1])]

----------------------------------------------------------------------------
(* Grids entered by the user, row by row: 0 is an empty cell.               *)

Classic ==
  << 0, 0, 3, 0, 2, 0, 6, 0, 0,
     9, 0, 0, 3, 0, 5, 0, 0, 1,
     0, 0, 1, 8, 0, 6, 4, 0, 0,
     0, 0, 8, 1, 0, 2, 9, 0, 0,
     7, 0, 0, 0, 0, 0, 0, 0, 8,
     0, 0, 6, 7, 0, 8, 2, 0, 0,
     0, 0, 2, 6, 0, 9, 5, 0, 0,
     8, 0, 0, 2, 0, 3, 0, 0, 9,
     0, 0, 5, 0, 1, 0, 3, 0, 0 >>

Solved ==
  << 4, 8, 3, 9, 2, 1, 6, 5, 7,
     9, 6, 7, 3, 4, 5, 8, 2, 1,
     2, 5, 1, 8, 7, 6, 4, 9, 3,
     5, 4, 8, 1, 3, 2, 9, 7, 6,
     7, 2, 9, 5, 6, 4, 1, 3, 8,
     1, 3, 6, 7, 9, 8, 2, 4, 5,
     3, 7, 2, 6, 8, 9, 5, 1, 4,
     8, 1, 4, 2, 5, 3, 7, 6, 9,
     6, 9, 5, 4, 1, 7, 3, 8, 2 >>

\* a puzzle whose search takes back a value
Backtracked ==
  << 4, 8, 0, 9, 2, 1, 6, 0, 7,
     9, 6, 7, 3, 4, 0, 0, 0, 1,
     0, 5, 0, 8, 7, 6, 4, 0, 3,
     5, 4, 8, 1, 3, 2, 0, 7, 6,
     0, 2, 0, 5, 0, 4, 1, 0, 8,
     1, 3, 0, 7, 0, 8, 2, 4, 5,
     0, 7, 0, 6, 8, 9, 5, 1, 4,
     0, 1, 0, 2, 5, 3, 0, 0, 9,
     0, 0, 5, 4, 1, 7, 3, 0, 2 >>

Blank == [p \in 1 .. 81 |-> 0]

\* nine givens without a repeated digit that leave no digit for row 1, column 9
Unsolvable ==
    [p \in 1 .. 81 |->
        IF p <= 8 THEN Solved[p] ELSE IF p = 45 THEN 7 ELSE 0]

Chr == <<"1", "2", "3", "4", "5", "6", "7", "8", "9">>

Digits == Range(Chr)

\* the texts of the 81 cells of a grid
Texts(g) == [p \in 1 .. 81 |-> IF g[p] = 0 THEN <<>> ELSE <<Chr[g[p]]>>]

Inputs ==
    { Texts(Classic), Texts(Blank), Texts(Solved), Texts(Backtracked),
      \* '0' typed for an empty cell
      [Texts(Unsolvable) EXCEPT ![81] = <<"0">>],
      \* the same digit twice in row 1; in row 9 of a full grid; in row 1 of
      \* an empty grid
      [Texts(Solved) EXCEPT ![2] = <<"4">>],
      [Texts(Solved) EXCEPT ![81] = <<"8">>],
      [Texts(Blank) EXCEPT ![1] = <<"5">>, ![2] = <<"5">>],
      \* two characters in one cell: 82 squares
      [Texts(Solved) EXCEPT ![1] = <<"4", "8">>],
      \* a character that is no square: 80 squares
      [Texts(Solved) EXCEPT ![81] = <<"x">>] }

----------------------------------------------------------------------------
(* Sudoku.__init__                                                          *)

\* re.findall(r'\d|\.', grid)
IsSquare(ch) == ch \in Digits \cup {"0", "."}

findall(grid) == SelectSeq(grid, IsSquare)

\* zip(flatten(self.rows), squares): as many pairs as the shorter list has
NumCells(squares) == Min(81, Len(squares))

SudokuVariables(squares) == SubSeq(flatten(rows), 1, NumCells(squares))

\* a slip: the givens are not read
SudokuDomainsAllBlank(squares) ==
    [var \in Range(SudokuVariables(squares)) |-> Chr]

SudokuDomains(squares) ==
    [var \in Range(SudokuVariables(squares)) |->
        LET k == CHOOSE k \in 1 .. NumCells(squares) : flatten(rows)[k] = var
            ch == squares[k]
        IN  IF ch \in Digits THEN <<ch>> ELSE Chr]

\* a slip: one square too many is let through
TooManySquaresOffByOne(squares) == Len(squares) > 82

TooManySquares(squares) == Len(squares) > 81

----------------------------------------------------------------------------
(* CSP                                                                      *)

assign(var, val, a) ==
    [v \in DOMAIN a \cup {var} |-> IF v = var THEN val ELSE a[v]]

\* a slip: the variable stays in the assignment
unassign_nothing(var, a) == a

unassign(var, a) == [v \in DOMAIN a \ {var} |-> a[v]]

nconflicts(var, val, a) ==
    Cardinality({var2 \in neighbors[var] :
        /\ var2 \in DOMAIN a
        /\ ~different_values_constraint(var, val, var2, a[var2])})

----------------------------------------------------------------------------
(* Variable and value ordering                                              *)

num_legal_values(cd, dom, var, a) ==
    IF DOMAIN cd # {}
    THEN Len(cd[var])
    ELSE Cardinality({k \in DOMAIN dom[var] : nconflicts(var, dom[var][k], a) = 0})

\* the items of seq with the least key, in the order of seq; key maps an
\* item to the value of the key function
Minimal(seq, key) ==
    LET keys == {key[seq[k]] : k \in DOMAIN seq}
        m    == CHOOSE m \in keys : \A n \in keys : m <= n
    IN  SelectSeq(seq, LAMBDA x : key[x] = m)

\* argmin_random_tie: min() takes the first least item of the shuffled list,
\* so any least item can be returned; n is the number of earlier shuffles.
argmin_random_tie(seq, key, n) ==
    LET least == Minimal(seq, key)
    IN  IF n < MaxShuffles
        THEN {least[k] : k \in 1 .. Min(MaxTieWidth, Len(least))}
        ELSE {least[1]}

\* a slip: the default variable order is used
first_unassigned_variable(a, vs, cd, dom, n) ==
    {SelectSeq(vs, LAMBDA v : v \notin DOMAIN a)[1]}

minimum_remaining_values(a, vs, cd, dom, n) ==
    LET seq == SelectSeq(vs, LAMBDA v : v \notin DOMAIN a)
    IN  argmin_random_tie(seq,
            [var \in Range(seq) |-> num_legal_values(cd, dom, var, a)], n)

\* sorted(list, key): stable, the keys are counts of neighbors (0 .. 20)
RECURSIVE SortedFrom(_, _, _)
SortedFrom(list, key, k) ==
    IF k > 20 THEN <<>>
    ELSE SelectSeq(list, LAMBDA x : key[x] = k) \o SortedFrom(list, key, k + 1)

\* a slip: the values of the original domain of a blank are ordered
least_constraining_value_of_all(var, a, cd, dom) ==
    SortedFrom(Chr, [val \in Range(Chr) |-> nconflicts(var, val, a)], 0)

least_constraining_value(var, a, cd, dom) ==
    LET list == (IF DOMAIN cd # {} THEN cd ELSE dom)[var]
    IN  SortedFrom(list, [val \in Range(list) |-> nconflicts(var, val, a)], 0)

----------------------------------------------------------------------------
(* Inference                                                                *)

\* a slip: no item is removed
not_pruned(lst, var, value, B) == lst

\* the list lst without the items equal to b, and how many there were:
\* "for b in lst[:]: if not constraints(..): lst.remove(b)"
Pruned(lst, var, value, B) ==
    SelectSeq(lst, LAMBDA b : different_values_constraint(var, value, B, b))

\* writes through a key of curr_domains reach csp.domains while the two
\* dicts still hold the same list object (csp.domains.copy() is shallow)
SetList(h, B, lst) ==
    [cd  |-> [h.cd EXCEPT ![B] = lst],
     dom |-> IF B \in h.shared THEN [h.dom EXCEPT ![B] = lst] ELSE h.dom]

\* forward_checking from the k-th neighbor of var on; h holds curr_domains,
\* domains, shared and removals.  ok is the returned value; exc is
\* "KeyError" when a neighbor has no entry in curr_domains.
RECURSIVE forward_checking_from(_, _, _, _, _)
forward_checking_from(k, var, value, a, h) ==
    IF k > Len(neighbors_iter[var + 1])
    THEN [h EXCEPT !.ok = TRUE]
    ELSE
        LET B == neighbors_iter[var + 1][k]
        IN  IF B \in DOMAIN a
            THEN forward_checking_from(k + 1, var, value, a, h)
            ELSE IF B \notin DOMAIN h.cd
            THEN [h EXCEPT !.ok = FALSE, !.exc = "KeyError"]
            ELSE
                LET old  == h.cd[B]
                    new  == Pruned(old, var, value, B)
                    gone == SelectSeq(old, LAMBDA b :
                                ~different_values_constraint(var, value, B, b))
                    s    == SetList(h, B, new)
                    h2   == [h EXCEPT !.cd = s.cd, !.dom = s.dom,
                                !.removals = h.removals \o
                                    [i \in DOMAIN gone |-> <<B, gone[i]>>]]
                IN  IF new = <<>>
                    THEN [h2 EXCEPT !.ok = FALSE]
                    ELSE forward_checking_from(k + 1, var, value, a, h2)

\* a slip: no inference is made
no_inference(var, value, a, h) == h

\* a slip: an emptied list is not reported
forward_checking_unreported(var, value, a, h) ==
    [forward_checking_from(1, var, value, a, h) EXCEPT !.ok = TRUE]

forward_checking(var, value, a, h) ==
    forward_checking_from(1, var, value, a, h)

\* a slip: the last logged removal is not put back
RECURSIVE restore_but_last(_, _)
restore_but_last(h, removals) ==
    IF Len(removals) <= 1 THEN h
    ELSE
        LET B == Head(removals)[1]
            b == Head(removals)[2]
            s == SetList(h, B, Append(h.cd[B], b))
        IN  restore_but_last([h EXCEPT !.cd = s.cd, !.dom = s.dom],
                             Tail(removals))

\* a slip: nothing is put back
restore_nothing(h, removals) == h

\* restore: append every logged value to the list now in curr_domains
RECURSIVE restore(_, _)
restore(h, removals) ==
    IF removals = <<>> THEN h
    ELSE
        LET B == Head(removals)[1]
            b == Head(removals)[2]
            s == SetList(h, B, Append(h.cd[B], b))
        IN  restore([h EXCEPT !.cd = s.cd, !.dom = s.dom], Tail(removals))

\* a slip: the working domain of the committed variable is not shrunk to
\* the value: the values logged for it are still in its list
Heap_unshrunk(cd, dom, sh, removals) ==
    [cd |-> [v \in DOMAIN cd |->
                cd[v] \o [k \in DOMAIN SelectSeq(removals, LAMBDA r : r[1] = v)
                            |-> SelectSeq(removals, LAMBDA r : r[1] = v)[k][2]]],
     dom |-> dom, shared |-> sh, removals |-> removals,
     ok |-> TRUE, exc |-> ""]

Heap(cd, dom, sh, removals) ==
    [cd |-> cd, dom |-> dom, shared |-> sh, removals |-> removals,
     ok |-> TRUE, exc |-> ""]

----------------------------------------------------------------------------
(* The state after construction of the window, with a grid typed in.        *)

NoCSP ==
    /\ variables = <<>>
    /\ domains = <<>>
    /\ curr_domains = <<>>
    /\ shared = {}
    /\ nassigns = 0
    /\ assignment = <<>>
    /\ stack = <<>>
    /\ result = <<>>
    /\ shuffles = 0

Grid(texts) == [i \in 0 .. 8 |-> [j \in 0 .. 8 |-> texts[9 * i + j + 1]]]

White == "#ffffff"

Green == "#7fba00"

Red == "#f25022"

\* "savedNumbers[i][j].get() in ['1', ..., '9']"
IsDigitText(text) == Len(text) = 1 /\ text[1] \in Digits

\* the window as __init__ leaves it, with the texts given to the cells
Window(saved) ==
    [saved |-> saved,
     row   |-> [i \in 0 .. 8 |-> {}],
     col   |-> [i \in 0 .. 8 |-> {}],
     block |-> [i \in 0 .. 8 |-> {}],
     fg    |-> [i \in 0 .. 8 |-> [j \in 0 .. 8 |-> White]]]

\* correctGrid for the widget at row i, column j, when flag is False
correctGridOn(g, i, j) ==
    LET text       == g.saved[i][j]
        blockIndex == (i \div 3) * 3 + j \div 3
    IN  IF text = <<>> THEN g
        ELSE IF ~IsDigitText(text) THEN [g EXCEPT !.saved[i][j] = <<>>]
        ELSE IF /\ text[1] \notin g.row[i]
                /\ text[1] \notin g.col[j]
                /\ text[1] \notin g.block[blockIndex]
        THEN [g EXCEPT !.fg[i][j] = Green,
                       !.row[i] = @ \cup {text[1]},
                       !.col[j] = @ \cup {text[1]},
                       !.block[blockIndex] = @ \cup {text[1]}]
        ELSE [g EXCEPT !.fg[i][j] = Red]

\* A grid typed in row by row, every cell validated by correctGrid when it
\* loses the focus; a cell whose text is not a digit is still being edited.
\* The cell at position p (1 .. 81, row by row) was found free of conflicts
\* when no cell validated before it had put its digit into row, col or block.
Typed(texts) ==
    LET unit(p, q)  == \/ (p - 1) \div 9 = (q - 1) \div 9
                       \/ (p - 1) % 9 = (q - 1) % 9
                       \/ /\ (p - 1) \div 27 = (q - 1) \div 27
                          /\ ((p - 1) % 9) \div 3 = ((q - 1) % 9) \div 3
        added[p \in 1 .. 81] ==
            /\ IsDigitText(texts[p])
            /\ \A q \in 1 .. p - 1 :
                   (unit(p, q) /\ texts[q] = texts[p]) => ~added[q]
        seen(P)     == {texts[p][1] : p \in {q \in P : added[q]}}
        g           == Window(Grid(texts))
    IN  [g EXCEPT
            !.row   = [i \in 0 .. 8 |->
                          seen({p \in 1 .. 81 : (p - 1) \div 9 = i})],
            !.col   = [j \in 0 .. 8 |->
                          seen({p \in 1 .. 81 : (p - 1) % 9 = j})],
            !.block = [k \in 0 .. 8 |->
                          seen({p \in 1 .. 81 :
                                3 * ((p - 1) \div 27) + ((p - 1) % 9) \div 3 = k})],
            !.fg    = [i \in 0 .. 8 |-> [j \in 0 .. 8 |->
                          IF added[9 * i + j + 1] THEN Green
                          ELSE IF IsDigitText(texts[9 * i + j + 1]) THEN Red
                          ELSE White]]]

\* the cells still being edited
Editing(saved) ==
    {c \in (0 .. 8) \X (0 .. 8) :
        saved[c[1]][c[2]] # <<>> /\ ~IsDigitText(saved[c[1]][c[2]])}

Init ==
    /\ \E texts \in Inputs :
        LET g == Typed(texts)
        IN  /\ savedNumbers = g.saved
            /\ row = g.row
            /\ col = g.col
            /\ block = g.block
            /\ fg = g.fg
            /\ focus \in IF Editing(g.saved) = {} THEN {<<>>}
                          ELSE {<<c>> : c \in Editing(g.saved)}
    /\ flag = FALSE
    /\ statusLabel = "welcome"
    /\ raised = ""
    /\ pc = "mainloop"
    /\ NoCSP

\* the locals of a handler are gone when it returns or raises
Discard ==
    /\ variables' = <<>>
    /\ domains' = <<>>
    /\ curr_domains' = <<>>
    /\ shared' = {}
    /\ nassigns' = 0
    /\ assignment' = <<>>
    /\ stack' = <<>>
    /\ result' = <<>>
    /\ shuffles' = 0

----------------------------------------------------------------------------
(* gameLauncher.solver up to the call of backtracking_search                *)

\* the string built from the cells, row by row: '.' for an empty cell
input(saved) ==
    flatten([i \in 1 .. 9 |-> flatten([j \in 1 .. 9 |->
        IF saved[i - 1][j - 1] # <<>> THEN saved[i - 1][j - 1] ELSE <<".">>])])

solver ==
    /\ pc = "mainloop"
    /\ IF flag
       THEN /\ statusLabel' = "Please, clear the grid :("
            /\ raised' = ""
            /\ UNCHANGED <<savedNumbers, flag, row, col, block, fg, focus,
                           pc, cspvars>>
       ELSE LET squares == findall(input(savedNumbers))
            IN  IF TooManySquares(squares)
                THEN /\ raised' = "ValueError"
                     /\ UNCHANGED <<guivars, pc, cspvars>>
                ELSE /\ variables' = SudokuVariables(squares)
                     /\ domains' = SudokuDomains(squares)
                     /\ pc' = "backtracking_search"
                     /\ raised' = ""
                     /\ UNCHANGED <<guivars, curr_domains, shared, nassigns,
                                    assignment, stack, result, shuffles>>

\* backtracking_search: csp.curr_domains = csp.domains.copy(); backtrack({})
backtracking_search ==
    /\ pc = "backtracking_search"
    /\ curr_domains' = domains
    /\ shared' = DOMAIN domains
    /\ assignment' = <<>>
    /\ pc' = "backtrack"
    /\ UNCHANGED <<guivars, raised, variables, domains, nassigns, stack,
                   result, shuffles>>

----------------------------------------------------------------------------
(* backtrack                                                                *)

\* a slip: the search stops one variable early
complete_but_one(a, vs) == Cardinality(DOMAIN a) >= Len(vs) - 1

\* "if len(assignment) == len(csp.variables)"
complete(a, vs) == Cardinality(DOMAIN a) = Len(vs)

top == stack[Len(stack)]

\* A frame of stack holds the locals var, removals and the position i in the
\* ordered values, and, for the properties only, before: csp.curr_domains as
\* it was when the last value was committed (<<>> when none was yet).

\* entry of a call: return the complete assignment through every caller
\* ("if result is not None: return result"), or select a variable and order
\* its values
backtrack ==
    /\ pc = "backtrack"
    /\ IF complete(assignment, variables)
       THEN /\ result' = <<assignment>>
            /\ stack' = <<>>
            /\ pc' = "returned"
            /\ UNCHANGED shuffles
       ELSE /\ \E var \in minimum_remaining_values(assignment, variables,
                                     curr_domains, domains, shuffles) :
                stack' = Append(stack,
                    [var |-> var,
                     values |-> least_constraining_value(var, assignment,
                                                         curr_domains, domains),
                     i |-> 1,
                     removals |-> <<>>,
                     before |-> <<>>])
            /\ shuffles' = Min(shuffles + 1, MaxShuffles)
            /\ pc' = "for"
            /\ UNCHANGED result
    /\ UNCHANGED <<guivars, raised, variables, domains, curr_domains, shared,
                   nassigns, assignment>>

\* one pass of "for value in ...": the conflict test, the commitment of the
\* value and the inference
try_value ==
    /\ pc = "for"
    /\ top.i <= Len(top.values)
    /\ LET var   == top.var
           value == top.values[top.i]
       IN  IF nconflicts(var, value, assignment) # 0
           THEN /\ stack' = [stack EXCEPT ![Len(stack)].i = top.i + 1]
                /\ UNCHANGED <<guivars, raised, pc, variables, domains,
                               curr_domains, shared, nassigns, assignment,
                               result, shuffles>>
           ELSE
               LET a   == assign(var, value, assignment)
                   own == SelectSeq(curr_domains[var], LAMBDA x : x # value)
                   h0  == Heap([curr_domains EXCEPT ![var] = <<value>>],
                               domains, shared \ {var},
                               [k \in DOMAIN own |-> <<var, own[k]>>])
                   h   == forward_checking(var, value, a, h0)
               IN  IF h.exc # ""
                   THEN /\ raised' = h.exc
                        /\ pc' = "mainloop"
                        /\ Discard
                        /\ UNCHANGED guivars
                   ELSE /\ assignment' = a
                        /\ nassigns' = nassigns + 1
                        /\ curr_domains' = h.cd
                        /\ domains' = h.dom
                        /\ shared' = h.shared
                        /\ stack' = [stack EXCEPT
                                        ![Len(stack)].removals = h.removals,
                                        ![Len(stack)].before = curr_domains]
                        /\ pc' = IF h.ok THEN "backtrack" ELSE "restore"
                        /\ UNCHANGED <<guivars, raised, variables, result,
                                       shuffles>>

\* "restore(csp, removals)" after a failed inference or a failed call
restore_removals ==
    /\ pc = "restore"
    /\ LET h == restore(Heap(curr_domains, domains, shared, <<>>),
                        top.removals)
       IN  /\ curr_domains' = h.cd
           /\ domains' = h.dom
    /\ stack' = [stack EXCEPT ![Len(stack)].i = top.i + 1]
    /\ pc' = "for"
    /\ UNCHANGED <<guivars, raised, variables, shared, nassigns, assignment,
                   result, shuffles>>

\* the values are used up: "csp.unassign(var, assignment); return None"
exhausted ==
    /\ pc = "for"
    /\ top.i > Len(top.values)
    /\ assignment' = unassign(top.var, assignment)
    /\ stack' = SubSeq(stack, 1, Len(stack) - 1)
    /\ IF Len(stack) = 1
       THEN /\ result' = <<>>
            /\ pc' = "returned"
       ELSE /\ pc' = "restore"
            /\ UNCHANGED result
    /\ UNCHANGED <<guivars, raised, variables, domains, curr_domains, shared,
                   nassigns, shuffles>>

----------------------------------------------------------------------------
(* gameLauncher.solver after backtracking_search, and gameLauncher.clear    *)

\* "for x in sodoku.domains: resultConvert += sodoku.domains[x][0]"
resultConvert(vs, dom) == [k \in DOMAIN vs |-> dom[vs[k]][1]]

\* the loop "for i in range(81)" that counts the cells whose first value is
\* '1': "invalid" at the tenth, or the exception of the first missing key or
\* empty list met before it
checkValidInput(dom) ==
    LET bad     == {i \in 0 .. 80 : i \notin DOMAIN dom \/ dom[i] = <<>>}
        ones(i) == Cardinality({k \in 0 .. i :
                       k \notin bad /\ dom[k][1] = "1"})
        tenth   == {i \in 0 .. 80 : ones(i) >= 10}
        before(S, T) == S # {} /\ \E i \in S : \A k \in S \cup T : i <= k
    IN  IF before(tenth, bad) THEN "invalid"
        ELSE IF bad = {} THEN "valid"
        ELSE IF (CHOOSE i \in bad : \A k \in bad : i <= k) \in DOMAIN dom
        THEN "IndexError" ELSE "KeyError"

solver_result ==
    /\ pc = "returned"
    /\ pc' = "mainloop"
    /\ Discard
    /\ IF \E v \in DOMAIN domains : domains[v] = <<>>
       THEN /\ raised' = "IndexError"
            /\ UNCHANGED guivars
       ELSE LET text  == resultConvert(variables, domains)
                check == checkValidInput(domains)
            IN  IF check = "invalid"
                THEN /\ statusLabel' = ":( invalid input!! Please try again"
                     /\ raised' = ""
                     /\ UNCHANGED <<savedNumbers, flag, row, col, block, fg,
                                    focus>>
                ELSE IF check # "valid"
                THEN /\ raised' = check
                     /\ UNCHANGED guivars
                ELSE IF Len(text) < 81
                THEN /\ savedNumbers' =
                            [i \in 0 .. 8 |-> [j \in 0 .. 8 |->
                                IF 9 * i + j + 1 <= Len(text)
                                THEN <<text[9 * i + j + 1]>>
                                ELSE savedNumbers[i][j]]]
                     /\ fg' = [i \in 0 .. 8 |-> [j \in 0 .. 8 |->
                                IF 9 * i + j + 1 <= Len(text)
                                THEN White ELSE fg[i][j]]]
                     /\ statusLabel' = ":) solving, please wait"
                     /\ raised' = "IndexError"
                     /\ UNCHANGED <<flag, row, col, block, focus>>
                ELSE /\ savedNumbers' =
                            [i \in 0 .. 8 |-> [j \in 0 .. 8 |->
                                <<text[9 * i + j + 1]>>]]
                     /\ fg' = [i \in 0 .. 8 |-> [j \in 0 .. 8 |-> White]]
                     /\ statusLabel' = ":) solved"
                     /\ flag' = TRUE
                     /\ raised' = ""
                     /\ UNCHANGED <<row, col, block, focus>>

clear ==
    /\ pc = "mainloop"
    /\ Len(focus) <= 1
    /\ savedNumbers' = [i \in 0 .. 8 |-> [j \in 0 .. 8 |-> <<>>]]
    /\ fg' = [i \in 0 .. 8 |-> [j \in 0 .. 8 |-> White]]
    /\ row' = [i \in 0 .. 8 |-> {}]
    /\ col' = [i \in 0 .. 8 |-> {}]
    /\ block' = [i \in 0 .. 8 |-> {}]
    /\ flag' = FALSE
    /\ statusLabel' = "Welcome back :)"
    /\ raised' = ""
    /\ UNCHANGED <<focus, pc, cspvars>>

----------------------------------------------------------------------------
(* The Entry widgets: editing, and the two bindings of correctGrid          *)

\* the cells the user works on, and the texts typed into them
EditCells == <<<<0, 0>>, <<0, 1>>, <<1, 0>>, <<4, 4>>>>

Cells == {EditCells[k] : k \in 1 .. Min(MaxCells, Len(EditCells))}

Keyed == {<<>>, <<"0">>} \cup {<<Chr[d]>> : d \in 1 .. Min(MaxDigit, 9)}

\* the user changes the text of the Entry that has the focus
entry(i, j, text) ==
    /\ pc = "mainloop"
    /\ focus = <<<<i, j>>>>
    /\ savedNumbers' = [savedNumbers EXCEPT ![i][j] = text]
    /\ UNCHANGED <<flag, statusLabel, row, col, block, fg, focus, raised, pc,
                   cspvars>>

\* correctGrid(event) with event.widget = track[i][j]
correctGrid(i, j) ==
    /\ pc = "mainloop"
    /\ IF flag
       THEN UNCHANGED <<savedNumbers, row, col, block, fg>>
       ELSE LET g == correctGridOn(
                        [saved |-> savedNumbers, row |-> row, col |-> col,
                         block |-> block, fg |-> fg], i, j)
            IN  /\ savedNumbers' = g.saved
                /\ row' = g.row
                /\ col' = g.col
                /\ block' = g.block
                /\ fg' = g.fg
    /\ raised' = ""
    /\ UNCHANGED <<flag, statusLabel, pc, cspvars>>

\* <Button-1> on track[i][j]: the binding of the widget runs before the
\* binding of the class Entry gives the widget the focus
Button1(i, j) ==
    /\ Len(focus) <= 1
    /\ correctGrid(i, j)
    /\ focus' = IF focus = <<>> \/ focus = <<<<i, j>>>>
                THEN <<<<i, j>>>> ELSE <<focus[1], <<i, j>>>>

\* <FocusOut> on track[i][j]: the focus goes to the clicked Entry, or with
\* the Tab key to another Entry or out of the grid
FocusOut(i, j) ==
    /\ focus # <<>>
    /\ focus[1] = <<i, j>>
    /\ correctGrid(i, j)
    /\ IF Len(focus) = 2
       THEN focus' = Tail(focus)
       ELSE focus' \in {<<>>} \cup
                {<<c>> : c \in Cells \ {<<i, j>>}}

----------------------------------------------------------------------------

Next ==
    \/ solver
    \/ backtracking_search
    \/ backtrack
    \/ try_value
    \/ restore_removals
    \/ exhausted
    \/ solver_result
    \/ clear

Spec == Init /\ [][Next]_vars

\* a step of a running handler
Step == Next /\ pc # "mainloop"

\* A handler that has started keeps running: weak fairness of Step, written
\* out with ENABLED <<Step>>_vars, which is pc # "mainloop".
FairSpec == Spec /\ ([]<>(pc = "mainloop") \/ []<><<Step>>_vars)

----------------------------------------------------------------------------
(* The window used for solving by hand: cells are edited and validated,    *)
(* File > solve is not used.                                               *)

HandInit ==
    /\ LET g == Window(Grid(Texts(Blank)))
       IN  /\ savedNumbers = g.saved
           /\ row = g.row
           /\ col = g.col
           /\ block = g.block
           /\ fg = g.fg
    /\ focus = <<>>
    /\ flag = FALSE
    /\ statusLabel = "welcome"
    /\ raised = ""
    /\ pc = "mainloop"
    /\ NoCSP

HandNext ==
    \/ \E c \in Cells : \E text \in Keyed : entry(c[1], c[2], text)
    \/ \E c \in Cells : Button1(c[1], c[2])
    \/ \E c \in Cells : FocusOut(c[1], c[2])
    \/ clear

HandSpec == HandInit /\ [][HandNext]_vars

----------------------------------------------------------------------------
(* Properties.  The grid is seen as the user sees it: position p in 1 .. 81 *)
(* counts the cells row by row, independently of the numbering of the       *)
(* variables and of the neighbors table.                                    *)

RowOf(p) == (p - 1) \div 9

ColOf(p) == (p - 1) % 9

BoxOf(p) == 3 * (RowOf(p) \div 3) + ColOf(p) \div 3

SameUnit(p, q) ==
    /\ p # q
    /\ \/ RowOf(p) = RowOf(q)
       \/ ColOf(p) = ColOf(q)
       \/ BoxOf(p) = BoxOf(q)

\* the other cells of the row, the column and the box of the cell at p
Peers == [p \in 1 .. 81 |-> {q \in 1 .. 81 : SameUnit(p, q)}]

\* the squares the constructor reads from the grid on the screen
Squares == findall(input(savedNumbers))

Grid81 == Len(Squares) = 81

IsGiven(sq, p) == p <= Len(sq) /\ sq[p] \in Digits

\* the positions of the givens
Givens == LET sq == Squares IN {p \in 1 .. 81 : IsGiven(sq, p)}

Returned == pc = "returned"

Found == Returned /\ result # <<>>

NotFound == Returned /\ result = <<>>

\* the digit the returned assignment gives the cell at position p
Digit(p) == result[1][variables[p]]

CompleteAssignment ==
    /\ Len(result) = 1
    /\ Len(variables) = 81
    /\ DOMAIN result[1] = Range(variables)
    /\ \A p \in 1 .. 81 : Digit(p) \in Digits

ConflictingGivens ==
    LET sq == Squares
        gs == {p \in 1 .. 81 : IsGiven(sq, p)}
    IN  \E p, q \in gs : SameUnit(p, q) /\ sq[p] = sq[q]

\* the givens agree with the grid Solved, in which every row, column and box
\* holds every digit once
ExtendsToSolved ==
    /\ Grid81
    /\ LET sq == Squares
       IN  \A p \in 1 .. 81 : IsGiven(sq, p) => sq[p] = Chr[Solved[p]]
    /\ \A p, q \in 1 .. 81 : SameUnit(p, q) => Solved[p] # Solved[q]
    /\ \A p \in 1 .. 81 : Solved[p] \in 1 .. 9

\* C1: an assignment returned for a grid of 81 cells gives every cell a digit
\* 1-9, and every row, column and box holds every digit exactly once.
C1_SolutionValid ==
    (Found /\ Grid81) =>
        /\ CompleteAssignment
        /\ \A u \in 0 .. 8 : \A d \in Digits :
            /\ Cardinality({p \in 1 .. 81 : RowOf(p) = u /\ Digit(p) = d}) = 1
            /\ Cardinality({p \in 1 .. 81 : ColOf(p) = u /\ Digit(p) = d}) = 1
            /\ Cardinality({p \in 1 .. 81 : BoxOf(p) = u /\ Digit(p) = d}) = 1

\* a solution found after a value had been taken back
C1_Witness == Found /\ Grid81 /\ nassigns > 81 /\ Givens # {}

\* C2: in a returned assignment every cell whose square is a digit 1-9 holds
\* that digit.
C2_GivensKept ==
    Found =>
        LET sq == Squares
        IN  \A p \in 1 .. Len(variables) :
                IsGiven(sq, p) =>
                    variables[p] \in DOMAIN result[1] /\ Digit(p) = sq[p]

C2_Witness ==
    /\ Found
    /\ Givens # {}
    /\ Givens # 1 .. 81
    /\ nassigns = 81

\* C3: for a grid of 81 cells whose givens can be completed to a solution
\* the search does not return None, whichever ties were broken; so for the
\* empty grid.
C3_SolvableIsSolved == (Returned /\ ExtendsToSolved) => result # <<>>

\* the empty grid solved
C3_Witness ==
    Found /\ ExtendsToSolved /\ Givens = {}

\* C4: for a grid of 81 cells with the same digit given twice in a row,
\* column or box the search returns None, never an assignment.
C4_ConflictFails == (Returned /\ Grid81 /\ ConflictingGivens) => result = <<>>

\* the failure found after other givens had been committed
C4_Witness == NotFound /\ Grid81 /\ ConflictingGivens /\ nassigns > 1

\* C5: for a full grid without a repeated digit in a row, column or box the
\* search returns the assignment of every cell to its given digit.
C5_SolvedUnchanged ==
    (Returned /\ Grid81 /\ Givens = 1 .. 81 /\ ~ConflictingGivens) =>
        /\ result # <<>>
        /\ CompleteAssignment
        /\ LET sq == Squares IN \A p \in 1 .. 81 : Digit(p) = sq[p]

C5_Witness ==
    Found /\ Grid81 /\ Givens = 1 .. 81 /\ ~ConflictingGivens

\* C6: a grid of more than 81 squares raises ValueError: no CSP exists for
\* it at any time, and the only step taken on it that keeps it on the
\* screen is the one that raises.
C6_TooLongRaises ==
    /\ [](Len(Squares) > 81 => NoCSP /\ pc = "mainloop")
    /\ [][(Len(Squares) > 81 /\ Len(Squares') > 81) =>
            raised' = "ValueError"]_vars

C6_Witness == Len(Squares) > 81 /\ raised = "ValueError"

\* C7: for a grid of 81 cells the search, once started, returns, and what
\* it returns is None or an assignment of all 81 cells.
C7_Terminates ==
    /\ (pc = "backtracking_search" /\ Len(variables) = 81) ~> Returned
    /\ [](Returned /\ Len(variables) = 81 =>
            result = <<>> \/ CompleteAssignment)

\* None returned for givens that do not repeat a digit
C7_Witness ==
    NotFound /\ Grid81 /\ ~ConflictingGivens /\ nassigns > 1

\* C8: csp.domains holds, throughout the search and when it has returned,
\* the lists the constructor made.
C8_DomainsUntouched ==
    pc \in {"backtracking_search", "backtrack", "for", "restore", "returned"} =>
        domains = SudokuDomains(Squares)

\* C9: after a successful search the string built from the first items of
\* csp.domains holds, for every cell, the digit of the assignment.
C9_StringIsAssignment ==
    (Found /\ Grid81) =>
        LET text == resultConvert(variables, domains)
        IN  \A p \in 1 .. 81 : text[p] = Digit(p)

\* C10: when the search has returned None, the handler writes no cell and
\* does not report the puzzle solved.
C10_FailureNotRendered ==
    [][NotFound =>
        /\ savedNumbers' = savedNumbers
        /\ flag' = FALSE
        /\ statusLabel' # ":) solved"]_vars

\* another cell of the row, column or box of the cell at row i, column j
\* shows the text of that cell
HeldElsewhere(i, j) ==
    \E p \in 1 .. 81 :
        /\ SameUnit(p, 9 * i + j + 1)
        /\ savedNumbers[RowOf(p)][ColOf(p)] = savedNumbers[i][j]

\* C11: when correctGrid validates a cell that holds a digit 1-9 (no solve
\* since the window was opened or cleared), the cell turns red if another
\* cell of its row, column or box holds the same digit now, and green
\* otherwise.
C11_ColourTellsConflict ==
    [][\A i, j \in 0 .. 8 :
        (/\ ~flag
         /\ IsDigitText(savedNumbers[i][j])
         /\ (Button1(i, j) \/ FocusOut(i, j))) =>
            fg'[i][j] = IF HeldElsewhere(i, j) THEN Red ELSE Green]_vars

Searching == pc \in {"backtrack", "for", "restore", "returned"}

\* the positions of the cells in the assignment
Assigned == {p \in 1 .. Len(variables) : variables[p] \in DOMAIN assignment}

\* C12: at every point of the search no two cells of a row, column or box
\* are both in the assignment with the same digit.
C12_AssignmentConsistent ==
    Searching =>
        LET as == Assigned
        IN  \A p \in as : \A q \in Peers[p] \cap as :
                assignment[variables[p]] # assignment[variables[q]]

\* cells of one unit are assigned, after a value was taken back
C12_Witness ==
    /\ pc = "for"
    /\ nassigns > Cardinality(DOMAIN assignment)
    /\ \E p \in Assigned : Peers[p] \cap Assigned # {}

\* the values of a list after which it holds each once
SameValues(l1, l2) == Range(l1) = Range(l2) /\ Len(l1) = Len(l2)

\* C13: when a committed value has failed (wipeout in forward_checking, or
\* None from the deeper call), then at the test of the next value, or at the
\* return of None, every working domain holds exactly the values it held
\* just before the value was committed.
C13_RestoreUndoes ==
    (pc = "for" /\ top.before # <<>>) =>
        /\ DOMAIN curr_domains = DOMAIN top.before
        /\ \A v \in DOMAIN curr_domains :
              SameValues(curr_domains[v], top.before[v])

\* a value that failed in a deeper call was undone, and restore changed lists
C13_Witness ==
    /\ pc = "for"
    /\ top.before # <<>>
    /\ nassigns > Cardinality(DOMAIN assignment) + 1
    /\ curr_domains # top.before
    /\ \E v \in DOMAIN curr_domains : Len(curr_domains[v]) > 1

\* len(assignment)
Size(a) == Cardinality(DOMAIN a)

\* C14: in a step of the search the number of entries of the assignment
\* grows by one when the first value of a newly selected variable is
\* committed, stays when a later value of it is committed, when a variable is
\* selected and while restore puts removals back, and falls by one when a
\* call gives up on its variable and returns None; it is the number of
\* variables only where the search returns the assignment.
C14_AssignmentSize ==
    /\ [][(pc \in {"backtrack", "for", "restore"} /\ pc' # "mainloop") =>
            Size(assignment') =
                IF pc = "for" /\ top.i > Len(top.values)
                    THEN Size(assignment) - 1
                ELSE IF pc = "for" /\ pc' # "for" /\ top.before = <<>>
                    THEN Size(assignment) + 1
                ELSE Size(assignment)]_vars
    /\ []((Searching /\ Size(assignment) = Len(variables)) =>
            \/ pc = "backtrack"
            \/ Found /\ result[1] = assignment)

\* a call has given up on its variable and returned None to its caller
C14_Witness ==
    /\ pc = "restore"
    /\ \A v \in DOMAIN curr_domains : curr_domains[v] # <<>>
    /\ nassigns > Size(assignment)

\* a step of try_value that commits top.var = top.values[top.i] and runs
\* forward_checking to its return
Commits ==
    /\ pc = "for"
    /\ top.i <= Len(top.values)
    /\ pc' \in {"backtrack", "restore"}

\* the neighbors of var that the assignment a leaves unassigned
Unassigned(var, a) == {B \in neighbors[var] : B \notin DOMAIN a}

\* C15: forward_checking(var, value) returns False (and does not raise)
\* exactly when it has left the working domain of an unassigned neighbor of
\* var empty; when it returns True no unassigned neighbor of var has value
\* in its working domain; every value that left a working domain is in the
\* removal log as (variable, value).
C15_ForwardChecking ==
    [][Commits =>
        LET var   == top.var
            value == top.values[top.i]
            open  == Unassigned(var, assignment')
            log   == Range(stack'[Len(stack')].removals)
        IN  /\ pc' = "restore" <=>
                  \E B \in open : curr_domains'[B] = <<>>
            /\ pc' = "backtrack" =>
                  \A B \in open : value \notin Range(curr_domains'[B])
            /\ \A v \in DOMAIN curr_domains :
                  \A b \in Range(curr_domains[v]) \ Range(curr_domains'[v]) :
                      <<v, b>> \in log]_vars

\* forward_checking has returned False after emptying a neighbor's list
C15_Witness ==
    /\ pc = "restore"
    /\ \E B \in Unassigned(top.var, assignment) :
          /\ curr_domains[B] = <<>>
          /\ \E b \in Digits : <<B, b>> \in Range(top.removals)

\* the variables whose working domain is empty
Wiped == {v \in DOMAIN curr_domains : curr_domains[v] = <<>>}

\* C16: at every entry of backtrack with an incomplete assignment every
\* unassigned variable has a non-empty working domain; a working domain is
\* empty only from the forward_checking that emptied it to the restore that
\* follows, and it is the domain of an unassigned variable.
C16_NoEmptyDomainAtSelection ==
    /\ (pc = "backtrack" /\ ~complete(assignment, variables)) =>
          \A v \in Range(variables) \ DOMAIN assignment :
              v \in DOMAIN curr_domains /\ curr_domains[v] # <<>>
    /\ (Searching /\ Wiped # {}) =>
          /\ pc = "restore"
          /\ Wiped \cap DOMAIN assignment = {}

\* a variable is selected after an earlier value had emptied a domain
C16_Witness ==
    /\ pc = "backtrack"
    /\ ~complete(assignment, variables)
    /\ nassigns > Size(assignment)
    /\ \E v \in Range(variables) \ DOMAIN assignment :
          Len(curr_domains[v]) = 1

\* the variables not in the assignment
Open == Range(variables) \ DOMAIN assignment

\* C17: the variable that minimum_remaining_values returns is not in the
\* assignment, and no unassigned variable has a shorter working domain,
\* whichever way the tie was broken.
C17_MinimumRemainingValues ==
    [][(pc = "backtrack" /\ pc' = "for") =>
        LET var == stack'[Len(stack')].var
        IN  /\ var \in Open
            /\ \A v \in Open :
                  Len(curr_domains[var]) <= Len(curr_domains[v])]_vars

\* a variable was selected among several of the least size, not the first
\* of them, while others had more values left
C17_Witness ==
    /\ pc = "for"
    /\ top.i = 1
    /\ top.before = <<>>
    /\ \E v \in Open : Len(curr_domains[v]) > Len(curr_domains[top.var])
    /\ \E k, l \in DOMAIN variables :
          /\ k < l
          /\ variables[l] = top.var
          /\ variables[k] \in Open
          /\ Len(curr_domains[variables[k]]) = Len(curr_domains[top.var])

\* the number of unassigned neighbors of var that have val in their
\* working domain: the candidates var = val would rule out
RuledOut(var, val) ==
    Cardinality({B \in Unassigned(var, assignment) :
                    val \in Range(curr_domains[B])})

\* C18: the values least_constraining_value returns for the selected
\* variable are the values of its working domain in ascending order of the
\* number of candidates each would rule out of the working domains of the
\* unassigned neighbors.
C18_LeastConstrainingFirst ==
    (pc = "for" /\ top.i = 1 /\ top.before = <<>>) =>
        /\ SameValues(top.values, curr_domains[top.var])
        /\ \A k, l \in DOMAIN top.values :
              k < l => RuledOut(top.var, top.values[k])
                           <= RuledOut(top.var, top.values[l])

\* the variable of the cell at position p: the cells are numbered box by box
VarAt(p) ==
    27 * (RowOf(p) \div 3) + 9 * (ColOf(p) \div 3)
        + 3 * (RowOf(p) % 3) + (ColOf(p) % 3)

\* the variables of the other cells of the row, column and box of a variable
PeerVars == [v \in {VarAt(p) : p \in 1 .. 81} |->
                {VarAt(q) : q \in Peers[CHOOSE p \in 1 .. 81 : VarAt(p) = v]}]

SymmetricTwenty ==
    \A v \in DOMAIN neighbors :
        /\ v \notin neighbors[v]
        /\ Cardinality(neighbors[v]) = 20
        /\ \A w \in neighbors[v] : v \in neighbors[w]

UnitsTable ==
    /\ DOMAIN neighbors = {VarAt(p) : p \in 1 .. 81}
    /\ \A v \in DOMAIN neighbors : neighbors[v] = PeerVars[v]

\* C19: the neighbors table of a Sudoku instance is symmetric and
\* irreflexive, gives each of the 81 cells 20 neighbors, relates two cells
\* exactly when they are distinct cells of one row, column or box of the
\* grid, and is the table _NEIGHBORS derived from the units.
C19_NeighborsTable ==
    Len(variables) = 81 =>
        /\ variables = [p \in 1 .. 81 |-> VarAt(p)]
        /\ SymmetricTwenty
        /\ UnitsTable
        /\ neighbors = _NEIGHBORS

\* an instance with its 81 cells is being searched
C19_Witness ==
    /\ Len(variables) = 81
    /\ pc = "for"
    /\ top.removals # <<>>

\* C20: an instance that Sudoku(grid) has built has 81 cells, each with an
\* initial domain: for the cell at position p of the parsed squares, row by
\* row, the digit alone if the square is a digit 1-9 and all of 1-9 if it is
\* '.' or '0'; every cell of the neighbors table has a domain.
C20_EightyOneDomains ==
    pc = "backtracking_search" =>
        /\ Len(variables) = 81
        /\ Len(Squares) = 81
        /\ DOMAIN domains = 0 .. 80
        /\ DOMAIN neighbors \subseteq DOMAIN domains
        /\ LET sq == Squares
           IN  \A p \in 1 .. 81 :
                /\ variables[p] = VarAt(p)
                /\ domains[VarAt(p)] =
                       IF sq[p] \in Digits THEN <<sq[p]>> ELSE Chr

\* backtrack is about to test the value top.values[top.i] of top.var
Tests == pc = "for" /\ top.i <= Len(top.values)

C22_SingletonsAtSuccess ==
    Found =>
        /\ DOMAIN curr_domains = Range(variables)
        /\ \A v \in Range(variables) : curr_domains[v] = <<result[1][v]>>

\* an assignment returned after values had been taken back, for a grid
\* with empty cells
C22_Witness ==
    /\ Found
    /\ nassigns > Len(variables)
    /\ Givens # 1 .. 81
    /\ \A v \in Range(variables) : Len(curr_domains[v]) = 1

====
